---- MODULE Spec2Model ----
(***************************************************************************)
(* Model of the warehouse packing core (lib/packingAlgorithm.ts):          *)
(* PackingAlgorithm.packBoxes with its retrieval A* search, its packing    *)
(* BFS with direct fallback, the feasibility oracle and the density        *)
(* metric.                                                                 *)
(***************************************************************************)
EXTENDS Integers, Sequences, FiniteSets, TLC

(***************************************************************************)
(* Program constant and bounds of the model.                               *)
(***************************************************************************)
\* private step = 10
step == 10

\* Largest number of boxes handed to packBoxes.
MaxBoxes == 4

\* The <<width, height>> a generated box may have: sides below, at and above
\* the step, none a multiple of it.
Shapes == {<<5, 5>>, <<5, 16>>, <<16, 5>>}

\* The warehouse configurations explored (storage bounds > 0, clearance >= 0):
\* widths and a length that are and are not multiples of the step, with and
\* without clearance.
Config(w, l, c) == [storageWidth |-> w, storageLength |-> l, clearance |-> c]

Configs == {Config(36, 30, 0), Config(16, 30, 0), Config(16, 30, 5), Config(26, 30, 5)}

(***************************************************************************)
(* Data model (types/warehouse.ts).                                        *)
(***************************************************************************)
Position(px, py) == [x |-> px, y |-> py]

Box(i, w, h) ==
    [id |-> i, width |-> w, height |-> h, x |-> 0, y |-> 0,
     isRotated |-> FALSE, isPacked |-> FALSE]

\* A packed box's bounds expanded by clearance on all four sides.
Obstacle(cfg, box) ==
    [x |-> box.x - cfg.clearance, y |-> box.y - cfg.clearance,
     width |-> box.width + 2 * cfg.clearance,
     height |-> box.height + 2 * cfg.clearance]

\* The strict AABB overlap test both searches apply to a candidate position
\* of a box of size w x h against one obstacle.
HitsObstacle(pos, w, h, obstacle) ==
    /\ pos.x + w > obstacle.x
    /\ pos.x < obstacle.x + obstacle.width
    /\ pos.y + h > obstacle.y
    /\ pos.y < obstacle.y + obstacle.height

(***************************************************************************)
(* PriorityQueue: items kept sorted by ascending priority; enqueue pushes  *)
(* and re-sorts with the (stable) Array.prototype.sort, so a new item      *)
(* lands after every item whose priority is not greater.                   *)
(***************************************************************************)
\* Mutant of Enqueue: the new item goes to the front whatever its priority.
Enqueue_Front(items, item, priority) ==
    <<[priority |-> priority, item |-> item]>> \o items

RECURSIVE Enqueue(_, _, _)
Enqueue(items, item, priority) ==
    IF items = <<>> THEN <<[priority |-> priority, item |-> item]>>
    ELSE IF Head(items).priority <= priority
         THEN <<Head(items)>> \o Enqueue(Tail(items), item, priority)
         ELSE <<[priority |-> priority, item |-> item]>> \o items

(***************************************************************************)
(* Retrieval search (findRetrievalPath).                                   *)
(***************************************************************************)
RetrievalObstacles(cfg, targetBox, currentPositions) ==
    {Obstacle(cfg, currentPositions[k]) :
        k \in {m \in DOMAIN currentPositions :
                  /\ currentPositions[m].id # targetBox.id
                  /\ currentPositions[m].isPacked}}

\* Mutant of NearestEdge: the comparison of the reduce is turned around.
NearestEdge_Farthest(cfg, targetBox) ==
    LET distances ==
            [left |-> targetBox.x,
             right |-> cfg.storageWidth - (targetBox.x + targetBox.width),
             top |-> targetBox.y,
             bottom |-> cfg.storageLength - (targetBox.y + targetBox.height)]
        pick(a, b) == IF distances[a] > distances[b] THEN a ELSE b
    IN  pick(pick(pick("left", "right"), "top"), "bottom")

\* Object.keys(distances).reduce((a, b) => distances[a] < distances[b] ? a : b)
NearestEdge(cfg, targetBox) ==
    LET distances ==
            [left |-> targetBox.x,
             right |-> cfg.storageWidth - (targetBox.x + targetBox.width),
             top |-> targetBox.y,
             bottom |-> cfg.storageLength - (targetBox.y + targetBox.height)]
        pick(a, b) == IF distances[a] < distances[b] THEN a ELSE b
    IN  pick(pick(pick("left", "right"), "top"), "bottom")

heuristic(cfg, pos, targetEdge, boxWidth, boxHeight) ==
    CASE targetEdge = "left" -> pos.x
      [] targetEdge = "right" -> cfg.storageWidth - (pos.x + boxWidth)
      [] targetEdge = "top" -> pos.y
      [] targetEdge = "bottom" -> cfg.storageLength - (pos.y + boxHeight)
      [] OTHER -> 0

\* Mutant of IsExit: the box has to be strictly past the edge line.
IsExit_Strict(cfg, nearestEdge, current, targetBox) ==
    \/ nearestEdge = "left" /\ current.x < 0
    \/ nearestEdge = "right" /\ current.x + targetBox.width > cfg.storageWidth
    \/ nearestEdge = "top" /\ current.y < 0
    \/ nearestEdge = "bottom" /\ current.y + targetBox.height > cfg.storageLength

\* Mutant of IsExit: any edge counts as the exit, not only the nearest one.
IsExit_AnyEdge(cfg, nearestEdge, current, targetBox) ==
    \/ current.x <= 0
    \/ current.x + targetBox.width >= cfg.storageWidth
    \/ current.y <= 0
    \/ current.y + targetBox.height >= cfg.storageLength

IsExit(cfg, nearestEdge, current, targetBox) ==
    \/ nearestEdge = "left" /\ current.x <= 0
    \/ nearestEdge = "right" /\ current.x + targetBox.width >= cfg.storageWidth
    \/ nearestEdge = "top" /\ current.y <= 0
    \/ nearestEdge = "bottom" /\ current.y + targetBox.height >= cfg.storageLength

RetrievalDirections(nearestEdge) ==
    CASE nearestEdge = "left" ->
            <<Position(-step, 0), Position(0, -step), Position(0, step), Position(step, 0)>>
      [] nearestEdge = "right" ->
            <<Position(step, 0), Position(0, -step), Position(0, step), Position(-step, 0)>>
      [] nearestEdge = "top" ->
            <<Position(0, -step), Position(-step, 0), Position(step, 0), Position(0, step)>>
      [] nearestEdge = "bottom" ->
            <<Position(0, step), Position(-step, 0), Position(step, 0), Position(0, -step)>>
      [] OTHER -> <<>>

\* Walk the parent map back from currentPos, unshifting each position.
RECURSIVE ReconstructPath(_, _, _)
ReconstructPath(parent, currentPos, path) ==
    IF currentPos \in DOMAIN parent
    THEN ReconstructPath(parent, parent[currentPos], <<currentPos>> \o path)
    ELSE <<currentPos>> \o path

\* Mutant of RetrievalInBounds: the search is not confined to a region.
RetrievalInBounds_Unbounded(cfg, neighbor, targetBox) == TRUE

\* The neighbour is allowed up to the box's own size beyond the storage.
RetrievalInBounds(cfg, neighbor, targetBox) ==
    /\ neighbor.x >= -targetBox.width
    /\ neighbor.x <= cfg.storageWidth
    /\ neighbor.y >= -targetBox.height
    /\ neighbor.y <= cfg.storageLength

\* Collision is evaluated only while the box is fully inside the storage.
FullyInside(cfg, neighbor, targetBox) ==
    /\ neighbor.x >= 0
    /\ neighbor.x <= cfg.storageWidth - targetBox.width
    /\ neighbor.y >= 0
    /\ neighbor.y <= cfg.storageLength - targetBox.height

RetrievalCollision(cfg, neighbor, targetBox, obstacles) ==
    /\ FullyInside(cfg, neighbor, targetBox)
    /\ \E obstacle \in obstacles :
          HitsObstacle(neighbor, targetBox.width, targetBox.height, obstacle)

\* The body of `for (const dir of directions)`, from direction k on.
\* s = [openSet, visited, parent, gScore].  (gScore.get(k) || 0) and
\* (gScore.get(k) || Infinity) treat a stored 0 like a missing entry.
RECURSIVE ExpandRetrieval(_, _, _, _, _, _, _)
ExpandRetrieval(cfg, targetBox, obstacles, nearestEdge, current, s, k) ==
    IF k > Len(RetrievalDirections(nearestEdge)) THEN s
    ELSE
      LET dir == RetrievalDirections(nearestEdge)[k]
          neighbor == Position(current.x + dir.x, current.y + dir.y)
          tentativeGScore ==
              (IF current \in DOMAIN s.gScore THEN s.gScore[current] ELSE 0) + step
          known == neighbor \in DOMAIN s.gScore /\ s.gScore[neighbor] # 0
          improves == ~known \/ tentativeGScore < s.gScore[neighbor]
          fScore == tentativeGScore
                      + heuristic(cfg, neighbor, nearestEdge,
                                  targetBox.width, targetBox.height)
          s2 == IF \/ neighbor \in s.visited
                   \/ ~RetrievalInBounds(cfg, neighbor, targetBox)
                   \/ RetrievalCollision(cfg, neighbor, targetBox, obstacles)
                   \/ ~improves
                THEN s
                ELSE [openSet |-> Enqueue(s.openSet, neighbor, fScore),
                      visited |-> s.visited,
                      parent |-> (neighbor :> current) @@ s.parent,
                      gScore |-> (neighbor :> tentativeGScore) @@ s.gScore]
      IN  ExpandRetrieval(cfg, targetBox, obstacles, nearestEdge, current, s2, k + 1)

\* The `while (!openSet.isEmpty())` loop.  The result is [found, path];
\* found = FALSE stands for the null the code returns.
RECURSIVE RetrievalLoop(_, _, _, _, _)
RetrievalLoop(cfg, targetBox, obstacles, nearestEdge, s) ==
    IF s.openSet = <<>> THEN [found |-> FALSE, path |-> <<>>]
    ELSE
      LET current == Head(s.openSet).item
          s1 == [s EXCEPT !.openSet = Tail(@)]
      IN  IF current \in s.visited
          THEN RetrievalLoop(cfg, targetBox, obstacles, nearestEdge, s1)
          ELSE
            LET s2 == [s1 EXCEPT !.visited = @ \cup {current}]
            IN  IF IsExit(cfg, nearestEdge, current, targetBox)
                THEN [found |-> TRUE,
                      path |-> ReconstructPath(s2.parent, current, <<>>)]
                ELSE RetrievalLoop(cfg, targetBox, obstacles, nearestEdge,
                        ExpandRetrieval(cfg, targetBox, obstacles, nearestEdge,
                                        current, s2, 1))

findRetrievalPath(cfg, targetBox, currentPositions) ==
    LET obstacles == RetrievalObstacles(cfg, targetBox, currentPositions)
        nearestEdge == NearestEdge(cfg, targetBox)
        startPos == Position(targetBox.x, targetBox.y)
        s0 == [openSet |-> Enqueue(<<>>, startPos,
                              heuristic(cfg, startPos, nearestEdge,
                                        targetBox.width, targetBox.height)),
               visited |-> {},
               parent |-> [p \in {} |-> startPos],
               gScore |-> (startPos :> 0)]
    IN  RetrievalLoop(cfg, targetBox, obstacles, nearestEdge, s0)

(***************************************************************************)
(* Packing search (findPackingPath): BFS from the dock, then the direct    *)
(* fallback.                                                               *)
(***************************************************************************)
DockPosition(cfg) == Position(0, cfg.storageLength)

PackingObstacles(cfg, existingBoxes) ==
    {Obstacle(cfg, existingBoxes[k]) :
        k \in {m \in DOMAIN existingBoxes : existingBoxes[m].isPacked}}

PackingDirections ==
    <<Position(-step, 0), Position(step, 0), Position(0, -step), Position(0, step)>>

PackingOutOfBounds(cfg, neighbor, boxSize) ==
    \/ neighbor.x < 0
    \/ neighbor.x > cfg.storageWidth - boxSize.width
    \/ neighbor.y < 0
    \/ neighbor.y > cfg.storageLength - boxSize.height

\* The body of `for (const dir of directions)` of the BFS, from direction k on.
\* s = [queue, visited, parent].
RECURSIVE ExpandPacking(_, _, _, _, _, _)
ExpandPacking(cfg, boxSize, obstacles, current, s, k) ==
    IF k > Len(PackingDirections) THEN s
    ELSE
      LET dir == PackingDirections[k]
          neighbor == Position(current.x + dir.x, current.y + dir.y)
          collision ==
              \E obstacle \in obstacles :
                  HitsObstacle(neighbor, boxSize.width, boxSize.height, obstacle)
          s2 == IF \/ neighbor \in s.visited
                   \/ PackingOutOfBounds(cfg, neighbor, boxSize)
                   \/ collision
                THEN s
                ELSE [queue |-> Append(s.queue, neighbor),
                      visited |-> s.visited \cup {neighbor},
                      parent |-> (neighbor :> current) @@ s.parent]
      IN  ExpandPacking(cfg, boxSize, obstacles, current, s2, k + 1)

\* The `while (queue.length > 0)` loop; found = FALSE when the frontier is
\* exhausted.
RECURSIVE PackingLoop(_, _, _, _, _)
PackingLoop(cfg, targetPos, boxSize, obstacles, s) ==
    IF s.queue = <<>> THEN [found |-> FALSE, path |-> <<>>]
    ELSE
      LET current == Head(s.queue)
          s1 == [s EXCEPT !.queue = Tail(@)]
      IN  IF current.x = targetPos.x /\ current.y = targetPos.y
          THEN [found |-> TRUE, path |-> ReconstructPath(s.parent, current, <<>>)]
          ELSE PackingLoop(cfg, targetPos, boxSize, obstacles,
                  ExpandPacking(cfg, boxSize, obstacles, current, s1, 1))

PackingBFS(cfg, targetPos, boxSize, existingBoxes) ==
    LET startPos == DockPosition(cfg)
    IN  PackingLoop(cfg, targetPos, boxSize, PackingObstacles(cfg, existingBoxes),
                    [queue |-> <<startPos>>,
                     visited |-> {startPos},
                     parent |-> [p \in {} |-> startPos]])

Min(a, b) == IF a < b THEN a ELSE b
Max(a, b) == IF a > b THEN a ELSE b

\* One coordinate of one pass of the fallback loop: the two `if`s in sequence.
StepToward(p, target) ==
    LET p1 == IF p < target THEN Min(p + step, target) ELSE p
    IN  IF p1 > target THEN Max(p1 - step, target) ELSE p1

\* Fallback: direct path.  `path` starts empty and receives a position only
\* after each move.
RECURSIVE FallbackLoop(_, _, _, _)
FallbackLoop(px, py, targetPos, path) ==
    IF px = targetPos.x /\ py = targetPos.y THEN path
    ELSE LET nx == StepToward(px, targetPos.x)
             ny == StepToward(py, targetPos.y)
         IN  FallbackLoop(nx, ny, targetPos, Append(path, Position(nx, ny)))

\* Mutant of FallbackPath: each pass pushes the position before moving.
RECURSIVE FallbackLoop_PushFirst(_, _, _, _)
FallbackLoop_PushFirst(px, py, targetPos, path) ==
    IF px = targetPos.x /\ py = targetPos.y THEN path
    ELSE FallbackLoop_PushFirst(StepToward(px, targetPos.x),
                                StepToward(py, targetPos.y), targetPos,
                                Append(path, Position(px, py)))

FallbackPath_PushFirst(cfg, targetPos) ==
    FallbackLoop_PushFirst(DockPosition(cfg).x, DockPosition(cfg).y, targetPos, <<>>)

FallbackPath(cfg, targetPos) ==
    FallbackLoop(DockPosition(cfg).x, DockPosition(cfg).y, targetPos, <<>>)

findPackingPath(cfg, targetPos, boxSize, existingBoxes) ==
    LET bfs == PackingBFS(cfg, targetPos, boxSize, existingBoxes)
    IN  IF bfs.found THEN bfs.path ELSE FallbackPath(cfg, targetPos)

(***************************************************************************)
(* Feasibility oracle (wouldBlockRetrieval).                               *)
(***************************************************************************)
\* Array.prototype.find on the id: the index of the first box with that id,
\* 0 when there is none.
FindById(boxList, boxId) ==
    IF \E k \in DOMAIN boxList : boxList[k].id = boxId
    THEN CHOOSE k \in DOMAIN boxList :
            /\ boxList[k].id = boxId
            /\ \A m \in DOMAIN boxList : boxList[m].id = boxId => k <= m
    ELSE 0

\* Mutant of TempBoxes: the hypothetical commit forgets isPacked = true, so
\* the oracle never validates the candidate box itself.
TempBoxes_NotPacked(newPos, newSize, currentBoxId, boxList) ==
    LET t == FindById(boxList, currentBoxId)
    IN  [k \in DOMAIN boxList |->
            IF k = t
            THEN [boxList[k] EXCEPT !.x = newPos.x, !.y = newPos.y,
                                    !.width = newSize.width,
                                    !.height = newSize.height]
            ELSE boxList[k]]

\* boxes.map(box => ({...box})) with the hypothetical commit applied.
TempBoxes(newPos, newSize, currentBoxId, boxList) ==
    LET t == FindById(boxList, currentBoxId)
    IN  [k \in DOMAIN boxList |->
            IF k = t
            THEN [boxList[k] EXCEPT !.x = newPos.x, !.y = newPos.y,
                                    !.width = newSize.width,
                                    !.height = newSize.height,
                                    !.isPacked = TRUE]
            ELSE boxList[k]]

\* `for (const boxId of retrievalOrder)` from position k on: TRUE as soon as
\* a packed box has no retrieval path.
RECURSIVE BlockedFrom(_, _, _, _)
BlockedFrom(cfg, tempBoxes, order, k) ==
    IF k > Len(order) THEN FALSE
    ELSE LET b == FindById(tempBoxes, order[k])
         IN  IF /\ b # 0
                /\ tempBoxes[b].isPacked
                /\ ~findRetrievalPath(cfg, tempBoxes[b], tempBoxes).found
             THEN TRUE
             ELSE BlockedFrom(cfg, tempBoxes, order, k + 1)

\* Mutant of wouldBlockRetrieval: only the box the retrieval order names
\* first is searched.
wouldBlockRetrieval_FirstInOrder(cfg, newPos, newSize, currentBoxId, boxList, order) ==
    BlockedFrom(cfg, TempBoxes(newPos, newSize, currentBoxId, boxList),
                SubSeq(order, 1, 1), 1)

\* Mutant of wouldBlockRetrieval: only the box being placed is searched.
wouldBlockRetrieval_NewBoxOnly(cfg, newPos, newSize, currentBoxId, boxList, order) ==
    BlockedFrom(cfg, TempBoxes(newPos, newSize, currentBoxId, boxList),
                <<currentBoxId>>, 1)

wouldBlockRetrieval(cfg, newPos, newSize, currentBoxId, boxList, order) ==
    BlockedFrom(cfg, TempBoxes(newPos, newSize, currentBoxId, boxList), order, 1)

(***************************************************************************)
(* Placement search helpers (packBoxes, the loops over orientations, y, x).*)
(***************************************************************************)
Orientations(box) ==
    <<[width |-> box.width, height |-> box.height, rotated |-> FALSE],
      [width |-> box.height, height |-> box.width, rotated |-> TRUE]>>

\* result.boxes.find(b => b.isPacked && b.x === existingPos.x && b.y === existingPos.y)
FindPackedAt(boxList, existingPos) ==
    LET hit == {k \in DOMAIN boxList :
                   /\ boxList[k].isPacked
                   /\ boxList[k].x = existingPos.x
                   /\ boxList[k].y = existingPos.y}
    IN  IF hit = {} THEN 0 ELSE CHOOSE k \in hit : \A m \in hit : k <= m

\* Mutant of PlacementCollision: only a candidate at the very position of a
\* committed box collides.
PlacementCollision_SamePosition(cfg, boxList, positions, px, py, orientation) ==
    \E p \in DOMAIN positions :
        LET e == FindPackedAt(boxList, positions[p])
        IN  e # 0 /\ px = boxList[e].x /\ py = boxList[e].y

\* Mutant of PlacementCollision: the clearance is left out of the test.
PlacementCollision_NoClearance(cfg, boxList, positions, px, py, orientation) ==
    \E p \in DOMAIN positions :
        LET e == FindPackedAt(boxList, positions[p])
        IN  /\ e # 0
            /\ px < boxList[e].x + boxList[e].width
            /\ px + orientation.width > boxList[e].x
            /\ py < boxList[e].y + boxList[e].height
            /\ py + orientation.height > boxList[e].y

\* "Check collision with existing boxes": the candidate and a committed box
\* are closer than `clearance` on both axes.
PlacementCollision(cfg, boxList, positions, px, py, orientation) ==
    \E p \in DOMAIN positions :
        LET e == FindPackedAt(boxList, positions[p])
        IN  /\ e # 0
            /\ px < boxList[e].x + boxList[e].width + cfg.clearance
            /\ px + orientation.width + cfg.clearance > boxList[e].x
            /\ py < boxList[e].y + boxList[e].height + cfg.clearance
            /\ py + orientation.height + cfg.clearance > boxList[e].y

\* The scan cursor [i, o, x, y] (box index, orientation index, candidate)
\* moved to the next candidate the three nested loops visit: x past its
\* range starts the next row, y past its range the next orientation, the
\* orientations exhausted the next box.  i = Len(boxList) ends the scan.
RECURSIVE NextCandidate(_, _, _)
NextCandidate(cfg, boxList, c) ==
    IF c.i >= Len(boxList) THEN [i |-> Len(boxList), o |-> 0, x |-> 0, y |-> 0]
    ELSE IF c.o >= 2
         THEN NextCandidate(cfg, boxList, [i |-> c.i + 1, o |-> 0, x |-> 0, y |-> 0])
    ELSE LET orientation == Orientations(boxList[c.i + 1])[c.o + 1]
         IN  IF c.y > cfg.storageLength - orientation.height
             THEN NextCandidate(cfg, boxList, [i |-> c.i, o |-> c.o + 1, x |-> 0, y |-> 0])
             ELSE IF c.x > cfg.storageWidth - orientation.width
             THEN NextCandidate(cfg, boxList, [i |-> c.i, o |-> c.o, x |-> 0, y |-> c.y + step])
             ELSE c

(***************************************************************************)
(* Density metric (calculateStorageDensity).  The quotient is kept exact,  *)
(* as the pair num/den, instead of its floating-point rounding.            *)
(***************************************************************************)
RECURSIVE SumAreas(_, _)
SumAreas(boxList, k) ==
    IF k > Len(boxList) THEN 0
    ELSE (IF boxList[k].isPacked THEN boxList[k].width * boxList[k].height ELSE 0)
            + SumAreas(boxList, k + 1)

\* Mutant of calculateStorageDensity: the total area is the storage width
\* alone instead of width times length.
calculateStorageDensity_WidthOnly(cfg, packedBoxes) ==
    LET totalArea == cfg.storageWidth
        occupiedArea == SumAreas(packedBoxes, 1)
    IN  [num |-> occupiedArea * 100, den |-> totalArea]

calculateStorageDensity(cfg, packedBoxes) ==
    LET totalArea == cfg.storageWidth * cfg.storageLength
        occupiedArea == SumAreas(packedBoxes, 1)
    IN  [num |-> occupiedArea * 100, den |-> totalArea]

(***************************************************************************)
(* State of one packBoxes call (App.tsx: generateRandomBoxes, packBoxes,   *)
(* calculateStorageDensity on the result).                                 *)
(***************************************************************************)
VARIABLES
    config,           \* the WarehouseConfig the algorithm was constructed with
    input,            \* the box array passed to packBoxes
    boxes,            \* result.boxes
    packingPaths,     \* result.packingPaths: box id -> path
    retrievalPaths,   \* result.retrievalPaths: box id -> path
    retrievalOrder,   \* retrievalOrder / result.retrievalOrder
    packedPositions,  \* packedPositions
    pc,               \* position in packBoxes
    si,               \* loop index i of the shuffle
    cursor,           \* [i, o, x, y]: box, orientation and candidate scanned
    ri,               \* position of the final loop in retrievalOrder
    pathKind,         \* box id -> which branch of findPackingPath returned
    density,          \* the value calculateStorageDensity returned
    steps,            \* loop iterations and entry/exit steps executed so far
    boxRefs,          \* the object each element of result.boxes refers to
    draws,            \* the values j the random source gave this invocation
    first             \* the draws and the result of the previous invocation

packVars == <<config, input, boxes, packingPaths, retrievalPaths, retrievalOrder,
              packedPositions, pc, si, cursor, ri, pathKind, density, steps,
              boxRefs, draws, first>>

\* State of one generateRandomBoxes call.
VARIABLES
    genConfig,        \* numRectangles, minSide, maxSide of this.config
    generated,        \* the local array boxes
    genPc             \* "loop" inside the for loop, "returned" after it

genVars == <<genConfig, generated, genPc>>

\* State of the App component that drives the animation.
VARIABLES
    simulationState,    \* mode, step, totalSteps, isRunning
    animationInterval,  \* the interval id held in state, 0 for null
    timers,             \* live interval id -> the variables its callback closes over
    nextTimer,          \* the id the next setInterval returns
    script,             \* the animation script the current packing result yields
    isConnected,        \* the Moonraker connection is up
    pendingStop         \* an Emergency Stop awaiting the API, with the interval it saw

simVars == <<simulationState, animationInterval, timers, nextTimer, script,
             isConnected, pendingStop>>

\* State of one MoonrakerWebSocket and of the WebSocket objects it created.
VARIABLES
    sockets,            \* slot -> readyState of a WebSocket the client created
    ws,                 \* this.ws: the slot it refers to, 0 for null
    reconnectAttempts,  \* this.reconnectAttempts
    reconnectTimers,    \* setTimeout calls of attemptReconnect not yet run
    requestId,          \* this.requestId
    pendingRequests,    \* the ids in this.pendingRequests
    promises,           \* the promises request() returned, in order
    closesSinceOpen,    \* close events since the last open event
    userDisconnected    \* the caller's last call was disconnect()

sockVars == <<sockets, ws, reconnectAttempts, reconnectTimers, requestId,
              pendingRequests, promises, closesSinceOpen, userDisconnected>>

\* The state outside packBoxes, which no step of packBoxes touches.
outside == <<genVars, simVars, sockVars>>

vars == <<packVars, outside>>

GenIdle ==
    /\ genConfig = [numRectangles |-> 0, minSide |-> 0, maxSide |-> 0]
    /\ generated = <<>>
    /\ genPc = "idle"

NoTimers == [t \in {} |-> 0]
NoStop == [pending |-> FALSE, interval |-> 0]

\* useState initial values (mode IDLE, not running).
SimIdle ==
    /\ simulationState = [mode |-> "Idle", step |-> 0, totalSteps |-> 0, isRunning |-> FALSE]
    /\ animationInterval = 0
    /\ timers = NoTimers
    /\ nextTimer = 1
    /\ script = <<>>
    /\ isConnected = FALSE
    /\ pendingStop = NoStop

maxReconnectAttempts == 5
MaxSockets == 2

\* Field initialisers and constructor of MoonrakerWebSocket.
SockIdle ==
    /\ sockets = [k \in 1..MaxSockets |-> "unused"]
    /\ ws = 0
    /\ reconnectAttempts = 0
    /\ reconnectTimers = 0
    /\ requestId = 1
    /\ pendingRequests = {}
    /\ promises = <<>>
    /\ closesSinceOpen = 0
    /\ userDisconnected = FALSE

OutsideIdle == GenIdle /\ SimIdle /\ SockIdle

NoPaths == [k \in {} |-> <<>>]
NoDensity == [num |-> -1, den |-> 1]
\* No invocation came before this one.
NoRun == [ran |-> FALSE, source |-> "random"]
ScanStart(k) == [i |-> k, o |-> 0, x |-> 0, y |-> 0]

\* The box lists generateRandomBoxes produces: ids 0..n-1 in order, at the
\* origin, unrotated, unpacked.
InputLists ==
    UNION {{[k \in 1..n |-> Box(k - 1, sz[k][1], sz[k][2])] :
                sz \in [1..n -> Shapes]} : n \in 0..MaxBoxes}

\* The documented scenarios: A, one 50x50 box in a 100x100 storage without
\* clearance; B, two 50x50 boxes in a 100x100 storage with clearance 10; C,
\* three 50x50 boxes in a 60x60 storage under several clearances.
SquareBoxes(n) == [k \in 1..n |-> Box(k - 1, 50, 50)]
ScenarioA == [config |-> Config(100, 100, 0), input |-> SquareBoxes(1)]
ScenarioB == [config |-> Config(100, 100, 10), input |-> SquareBoxes(2)]
ScenarioC(c) == [config |-> Config(60, 60, c), input |-> SquareBoxes(3)]
ScenarioClearances == {0, 10, 20}
Scenarios == {ScenarioA, ScenarioB} \cup {ScenarioC(c) : c \in ScenarioClearances}

\* A packing in which a candidate of the last box, (20,10), clears the
\* committed boxes and can leave itself but would shut in an earlier box.
EnclosingCase ==
    [config |-> Config(30, 26, 0),
     input |-> <<Box(0, 3, 25), Box(1, 12, 3), Box(2, 10, 3), Box(3, 8, 12)>>]

Init ==
    /\ \/ config \in Configs /\ input \in InputLists
       \/ \E s \in Scenarios \cup {EnclosingCase} :
             config = s.config /\ input = s.input
    /\ boxes = <<>>
    /\ packingPaths = NoPaths
    /\ retrievalPaths = NoPaths
    /\ retrievalOrder = <<>>
    /\ packedPositions = <<>>
    /\ pc = "start"
    /\ si = 0
    /\ cursor = ScanStart(0)
    /\ ri = 0
    /\ pathKind = NoPaths
    /\ density = NoDensity
    /\ steps = 0
    /\ boxRefs = <<>>
    /\ draws = <<>>
    /\ first = NoRun
    /\ OutsideIdle

\* Mutant of CopyRefs: result.boxes holds the caller's objects themselves.
CopyRefs_Alias(boxList) == [k \in DOMAIN boxList |-> <<"input", k>>]

\* boxes.map(box => ({ ...box })): every element of result.boxes is a new
\* object, not the caller's k-th box.
CopyRefs(boxList) == [k \in DOMAIN boxList |-> <<"copy", k>>]

\* The caller's array after box is written through the reference ref.
WriteThrough(boxList, ref, box) ==
    IF ref[1] = "input" THEN [boxList EXCEPT ![ref[2]] = box] ELSE boxList

\* packBoxes entry: copy the boxes, empty path maps, identity retrieval order.
Begin ==
    /\ pc = "start"
    /\ boxes' = [k \in DOMAIN input |-> input[k]]
    /\ boxRefs' = CopyRefs(input)
    /\ draws' = <<>>
    /\ packingPaths' = NoPaths
    /\ retrievalPaths' = NoPaths
    /\ retrievalOrder' = [k \in 1..Len(input) |-> k - 1]
    /\ si' = Len(input) - 1
    /\ pc' = "shuffle"
    /\ steps' = steps + 1
    /\ UNCHANGED <<config, input, packedPositions, cursor, ri, pathKind, density, first>>
    /\ UNCHANGED outside

\* Mutant of Swap: order[i] = order[j] without the exchange.
Swap_Overwrite(order, a, b) ==
    [k \in DOMAIN order |-> IF k = a + 1 THEN order[b + 1] ELSE order[k]]

\* One iteration of the Fisher-Yates loop: j = floor(random() * (i + 1)) is
\* any of 0..i.
Swap(order, a, b) ==
    [k \in DOMAIN order |->
        IF k = a + 1 THEN order[b + 1]
        ELSE IF k = b + 1 THEN order[a + 1] ELSE order[k]]

\* Mutant of RandomDraws: the random source is not reseeded, every value is
\* possible again.
RandomDraws_Unseeded(i, earlier, drawn) == 0..i

\* The values Math.floor(Math.random() * (i + 1)) can take for the draw
\* that follows `drawn`: any of 0..i; with the seed of an earlier
\* invocation ("replay") the value that invocation got at the same place;
\* with a source that returns its largest value every time ("top") i
\* itself, which leaves the order as it is.
RandomDraws(i, earlier, drawn) ==
    CASE earlier.source = "replay" -> {earlier.draws[Len(drawn) + 1]}
      [] earlier.source = "top" -> {i}
      [] OTHER -> 0..i

ShuffleStep ==
    /\ pc = "shuffle"
    /\ si > 0
    /\ \E j \in RandomDraws(si, first, draws) :
          /\ retrievalOrder' = Swap(retrievalOrder, si, j)
          /\ draws' = Append(draws, j)
    /\ si' = si - 1
    /\ steps' = steps + 1
    /\ UNCHANGED <<config, input, boxes, packingPaths, retrievalPaths,
                   packedPositions, pc, cursor, ri, pathKind, density,
                   boxRefs, first>>
    /\ UNCHANGED outside

\* The shuffle loop ends; the scan starts at the first candidate of box 0.
ShuffleDone ==
    /\ pc = "shuffle"
    /\ si <= 0
    /\ pc' = "pack"
    /\ packedPositions' = <<>>
    /\ cursor' = NextCandidate(config, boxes, ScanStart(0))
    /\ steps' = steps + 1
    /\ UNCHANGED <<config, input, boxes, packingPaths, retrievalPaths,
                   retrievalOrder, si, ri, pathKind, density,
                   boxRefs, draws, first>>
    /\ UNCHANGED outside

AtCandidate == pc = "pack" /\ cursor.i < Len(boxes)
CurBox == boxes[cursor.i + 1]
CurOrientation == Orientations(CurBox)[cursor.o + 1]
CurPos == Position(cursor.x, cursor.y)
CurCollision ==
    PlacementCollision(config, boxes, packedPositions, cursor.x, cursor.y,
                       CurOrientation)
CurBlocked ==
    wouldBlockRetrieval(config, CurPos, CurOrientation, CurBox.id, boxes,
                        retrievalOrder)
\* Mutant of AfterCandidate: the scan moves on by two steps.
AfterCandidate_DoubleStep ==
    NextCandidate(config, boxes, [cursor EXCEPT !.x = @ + 2 * step])

\* Mutant of AfterCandidate: the scan forgets x += step.
AfterCandidate_NoAdvance == NextCandidate(config, boxes, cursor)

AfterCandidate ==
    NextCandidate(config, boxes, [cursor EXCEPT !.x = @ + step])

\* The candidate collides with a committed box: x += step.
RejectCollision ==
    /\ AtCandidate
    /\ CurCollision
    /\ cursor' = AfterCandidate
    /\ steps' = steps + 1
    /\ UNCHANGED <<config, input, boxes, packingPaths, retrievalPaths,
                   retrievalOrder, packedPositions, pc, si, ri, pathKind, density,
                   boxRefs, draws, first>>
    /\ UNCHANGED outside

\* Mutant of AfterOracle: the oracle edits the boxes it was handed.
AfterOracle_Shared(boxList, tempBoxes) == tempBoxes

\* The boxes handed to wouldBlockRetrieval once it has returned: the oracle
\* writes the candidate into tempBoxes, the copies it made, so the boxes
\* are as before.
AfterOracle(boxList, tempBoxes) == boxList

\* The candidate is free but the oracle rejects it: x += step.
RejectBlocked ==
    /\ AtCandidate
    /\ ~CurCollision
    /\ CurBlocked
    /\ boxes' = AfterOracle(boxes, TempBoxes(CurPos, CurOrientation, CurBox.id, boxes))
    /\ cursor' = AfterCandidate
    /\ steps' = steps + 1
    /\ UNCHANGED <<config, input, packingPaths, retrievalPaths,
                   retrievalOrder, packedPositions, pc, si, ri, pathKind, density,
                   boxRefs, draws, first>>
    /\ UNCHANGED outside

\* The box committed at the candidate.
Committed(box, pos, orientation) ==
    [box EXCEPT !.x = pos.x, !.y = pos.y,
                !.width = orientation.width, !.height = orientation.height,
                !.isRotated = orientation.rotated, !.isPacked = TRUE]

\* The candidate passes both checks: commit the box, record its packing path
\* against result.boxes.slice(0, i), and go on with the next box.
Commit ==
    /\ AtCandidate
    /\ ~CurCollision
    /\ ~CurBlocked
    /\ boxes' = [boxes EXCEPT ![cursor.i + 1] = Committed(CurBox, CurPos, CurOrientation)]
    /\ packedPositions' = Append(packedPositions, CurPos)
    /\ LET earlier == SubSeq(boxes', 1, cursor.i)
       IN  /\ packingPaths' =
                (CurBox.id :> findPackingPath(config, CurPos, CurOrientation, earlier))
                    @@ packingPaths
           /\ pathKind' =
                (CurBox.id :> IF PackingBFS(config, CurPos, CurOrientation, earlier).found
                              THEN "bfs" ELSE "fallback")
                    @@ pathKind
    /\ input' = WriteThrough(input, boxRefs[cursor.i + 1],
                             Committed(CurBox, CurPos, CurOrientation))
    /\ cursor' = NextCandidate(config, boxes, ScanStart(cursor.i + 1))
    /\ steps' = steps + 1
    /\ UNCHANGED <<config, retrievalPaths, retrievalOrder, pc, si, ri, density,
                   boxRefs, draws, first>>
    /\ UNCHANGED outside

\* Every box has been scanned: start the final retrieval loop.
PackDone ==
    /\ pc = "pack"
    /\ cursor.i >= Len(boxes)
    /\ pc' = "retrieve"
    /\ ri' = 0
    /\ steps' = steps + 1
    /\ UNCHANGED <<config, input, boxes, packingPaths, retrievalPaths,
                   retrievalOrder, packedPositions, si, cursor, pathKind, density,
                   boxRefs, draws, first>>
    /\ UNCHANGED outside

\* Mutant of RetrieveStep: the isPacked test of the final loop is left out.
RetrieveStep_AnyBox ==
    /\ pc = "retrieve"
    /\ ri < Len(retrievalOrder)
    /\ LET boxId == retrievalOrder[ri + 1]
           b == FindById(boxes, boxId)
       IN  IF b # 0
           THEN LET path == findRetrievalPath(config, boxes[b], boxes)
                IN  retrievalPaths' =
                        IF path.found THEN (boxId :> path.path) @@ retrievalPaths
                        ELSE retrievalPaths
           ELSE retrievalPaths' = retrievalPaths
    /\ ri' = ri + 1
    /\ steps' = steps + 1
    /\ UNCHANGED <<config, input, boxes, packingPaths, retrievalOrder,
                   packedPositions, pc, si, cursor, pathKind, density,
                   boxRefs, draws, first>>
    /\ UNCHANGED outside

\* One iteration of "Generate retrieval paths for packed boxes".
RetrieveStep ==
    /\ pc = "retrieve"
    /\ ri < Len(retrievalOrder)
    /\ LET boxId == retrievalOrder[ri + 1]
           b == FindById(boxes, boxId)
       IN  IF b # 0 /\ boxes[b].isPacked
           THEN LET path == findRetrievalPath(config, boxes[b], boxes)
                IN  retrievalPaths' =
                        IF path.found THEN (boxId :> path.path) @@ retrievalPaths
                        ELSE retrievalPaths
           ELSE retrievalPaths' = retrievalPaths
    /\ ri' = ri + 1
    /\ steps' = steps + 1
    /\ UNCHANGED <<config, input, boxes, packingPaths, retrievalOrder,
                   packedPositions, pc, si, cursor, pathKind, density,
                   boxRefs, draws, first>>
    /\ UNCHANGED outside

\* return result
Return ==
    /\ pc = "retrieve"
    /\ ri >= Len(retrievalOrder)
    /\ pc' = "done"
    /\ steps' = steps + 1
    /\ UNCHANGED <<config, input, boxes, packingPaths, retrievalPaths,
                   retrievalOrder, packedPositions, si, cursor, ri, pathKind, density,
                   boxRefs, draws, first>>
    /\ UNCHANGED outside

\* The caller computes the density of result.boxes.
Density ==
    /\ pc = "done"
    /\ density' = calculateStorageDensity(config, boxes)
    /\ pc' = "reported"
    /\ steps' = steps + 1
    /\ UNCHANGED <<config, input, boxes, packingPaths, retrievalPaths,
                   retrievalOrder, packedPositions, si, cursor, ri, pathKind,
                   boxRefs, draws, first>>
    /\ UNCHANGED outside

Next ==
    \/ Begin
    \/ ShuffleStep
    \/ ShuffleDone
    \/ RejectCollision
    \/ RejectBlocked
    \/ Commit
    \/ PackDone
    \/ RetrieveStep
    \/ Return
    \/ Density

Spec == Init /\ [][Next]_vars

(***************************************************************************)
(* Two invocations in a row: the caller keeps the first result and calls   *)
(* packBoxes again with the same boxes and the random source reseeded.     *)
(***************************************************************************)
Again ==
    /\ pc = "done"
    /\ ~first.ran
    /\ first' = [ran |-> TRUE, source |-> "replay", draws |-> draws, boxes |-> boxes,
                 packingPaths |-> packingPaths, retrievalPaths |-> retrievalPaths,
                 retrievalOrder |-> retrievalOrder]
    /\ boxes' = <<>>
    /\ packingPaths' = NoPaths
    /\ retrievalPaths' = NoPaths
    /\ retrievalOrder' = <<>>
    /\ packedPositions' = <<>>
    /\ pc' = "start"
    /\ si' = 0
    /\ cursor' = ScanStart(0)
    /\ ri' = 0
    /\ pathKind' = NoPaths
    /\ boxRefs' = <<>>
    /\ draws' = <<>>
    /\ steps' = steps + 1
    /\ UNCHANGED <<config, input, density>>
    /\ UNCHANGED outside

TwoRunNext ==
    \/ Next
    \/ Again

TwoRunSpec == Init /\ [][TwoRunNext]_vars

(***************************************************************************)
(* Two invocations with different retrieval orders: the first draws leave  *)
(* the order as the identity, the second invocation draws freely.          *)
(***************************************************************************)
OrderInit ==
    /\ \/ config \in Configs /\ input \in InputLists
       \/ \E s \in Scenarios \cup {EnclosingCase} :
             config = s.config /\ input = s.input
    /\ boxes = <<>>
    /\ packingPaths = NoPaths
    /\ retrievalPaths = NoPaths
    /\ retrievalOrder = <<>>
    /\ packedPositions = <<>>
    /\ pc = "start"
    /\ si = 0
    /\ cursor = ScanStart(0)
    /\ ri = 0
    /\ pathKind = NoPaths
    /\ density = NoDensity
    /\ steps = 0
    /\ boxRefs = <<>>
    /\ draws = <<>>
    /\ first = [ran |-> FALSE, source |-> "top"]
    /\ OutsideIdle

AgainReshuffled ==
    /\ pc = "done"
    /\ ~first.ran
    /\ first' = [ran |-> TRUE, source |-> "random", draws |-> draws, boxes |-> boxes,
                 packingPaths |-> packingPaths, retrievalPaths |-> retrievalPaths,
                 retrievalOrder |-> retrievalOrder]
    /\ boxes' = <<>>
    /\ packingPaths' = NoPaths
    /\ retrievalPaths' = NoPaths
    /\ retrievalOrder' = <<>>
    /\ packedPositions' = <<>>
    /\ pc' = "start"
    /\ si' = 0
    /\ cursor' = ScanStart(0)
    /\ ri' = 0
    /\ pathKind' = NoPaths
    /\ boxRefs' = <<>>
    /\ draws' = <<>>
    /\ steps' = steps + 1
    /\ UNCHANGED <<config, input, density>>
    /\ UNCHANGED outside

OrderNext ==
    \/ Next
    \/ AgainReshuffled

OrderSpec == OrderInit /\ [][OrderNext]_vars

(***************************************************************************)
(* findRetrievalPath on its own: one box committed flush against the left  *)
(* edge, at any height of the storage, alone in it.                        *)
(***************************************************************************)
ProbeYs == {0, 5, 10, 15, 20, 25, 50}
ProbeCases ==
    {[config |-> c, box |-> Committed(Box(0, sh[1], sh[2]), Position(0, y),
                                      Orientations(Box(0, sh[1], sh[2]))[1])] :
        c \in Configs \cup {ScenarioA.config},
        sh \in Shapes \cup {<<50, 50>>},
        y \in ProbeYs}

ProbeInit ==
    /\ \E case \in ProbeCases :
          /\ case.box.width <= case.config.storageWidth
          /\ case.box.y + case.box.height <= case.config.storageLength
          /\ config = case.config
          /\ boxes = <<case.box>>
    /\ input = <<>>
    /\ packingPaths = NoPaths
    /\ retrievalPaths = NoPaths
    /\ retrievalOrder = <<>>
    /\ packedPositions = <<>>
    /\ pc = "probe"
    /\ si = 0
    /\ cursor = ScanStart(0)
    /\ ri = 0
    /\ pathKind = NoPaths
    /\ density = NoDensity
    /\ steps = 0
    /\ boxRefs = <<>>
    /\ draws = <<>>
    /\ first = NoRun
    /\ OutsideIdle

\* this.findRetrievalPath(box, boxes) for the one box; null leaves no entry.
Probe ==
    /\ pc = "probe"
    /\ LET path == findRetrievalPath(config, boxes[1], boxes)
       IN  retrievalPaths' = IF path.found THEN (boxes[1].id :> path.path) ELSE NoPaths
    /\ pc' = "probed"
    /\ UNCHANGED <<config, input, boxes, packingPaths, retrievalOrder,
                   packedPositions, si, cursor, ri, pathKind, density, steps,
                   boxRefs, draws, first>>
    /\ UNCHANGED outside

ProbeNext == Probe

ProbeSpec == ProbeInit /\ [][ProbeNext]_vars

(***************************************************************************)
(* generateRandomBoxes.  Math.random() is k / RandomGrain for a k in       *)
(* 0..RandomGrain-1, so that it lies in [0, 1) and the product with the    *)
(* side range is floored exactly.                                          *)
(***************************************************************************)
RandomGrain == 4
MaxRectangles == 2
MinSides == {5, 50}
SideRanges == {-2, 0, 1, 3}

GenConfigs ==
    {[numRectangles |-> n, minSide |-> lo, maxSide |-> lo + d] :
        n \in 0..MaxRectangles, lo \in MinSides, d \in SideRanges}

\* Mutant of RandomSide: Math.ceil in place of Math.floor.
RandomSide_Ceil(cfg, k) ==
    -((-(k * (cfg.maxSide - cfg.minSide))) \div RandomGrain) + cfg.minSide

\* Math.floor(Math.random() * (maxSide - minSide)) + minSide for
\* Math.random() = k / RandomGrain.
RandomSide(cfg, k) ==
    ((k * (cfg.maxSide - cfg.minSide)) \div RandomGrain) + cfg.minSide

PackIdle ==
    /\ config = Config(0, 0, 0)
    /\ input = <<>>
    /\ boxes = <<>>
    /\ packingPaths = NoPaths
    /\ retrievalPaths = NoPaths
    /\ retrievalOrder = <<>>
    /\ packedPositions = <<>>
    /\ pc = "idle"
    /\ si = 0
    /\ cursor = ScanStart(0)
    /\ ri = 0
    /\ pathKind = NoPaths
    /\ density = NoDensity
    /\ steps = 0
    /\ boxRefs = <<>>
    /\ draws = <<>>
    /\ first = NoRun

GenInit ==
    /\ genConfig \in GenConfigs
    /\ generated = <<>>
    /\ genPc = "loop"
    /\ PackIdle
    /\ SimIdle
    /\ SockIdle

\* One iteration of the for loop: two draws, one box pushed.
GenPush ==
    /\ genPc = "loop"
    /\ Len(generated) < genConfig.numRectangles
    /\ \E kw, kh \in 0..(RandomGrain - 1) :
          generated' = Append(generated,
                              Box(Len(generated), RandomSide(genConfig, kw),
                                  RandomSide(genConfig, kh)))
    /\ UNCHANGED <<genConfig, genPc, packVars, simVars, sockVars>>

\* return boxes
GenReturn ==
    /\ genPc = "loop"
    /\ Len(generated) >= genConfig.numRectangles
    /\ genPc' = "returned"
    /\ UNCHANGED <<genConfig, generated, packVars, simVars, sockVars>>

GenNext ==
    \/ GenPush
    \/ GenReturn

GenSpec == GenInit /\ [][GenNext]_vars

(***************************************************************************)
(* The animation controls of App: Play, Pause, Reset, Save Configuration,  *)
(* Emergency Stop and the ticks of the intervals Play starts.  A script    *)
(* item is the kind of its animation and the length of its path.           *)
(***************************************************************************)
MaxAnimated == 1
MaxTimers == 2
PathLengths == {1, 2}

\* The script handlePlay builds from a packing result: a 'pack' item per
\* packed box, then a 'retrieve' item per retrieval path.
Scripts ==
    UNION {{[k \in 1..(2 * n) |->
                [type |-> IF k <= n THEN "pack" ELSE "retrieve", len |-> lens[k]]] :
                lens \in [1..(2 * n) -> PathLengths]} : n \in 0..MaxAnimated}

RECURSIVE TotalSteps(_, _)
TotalSteps(items, k) ==
    IF k > Len(items) THEN 0 ELSE items[k].len + TotalSteps(items, k + 1)

\* clearInterval(id)
ClearInterval(live, id) == [t \in DOMAIN live \ {id} |-> live[t]]

\* The state generateAndPackBoxes sets at its end.
IdleState == [mode |-> "Idle", step |-> 0, totalSteps |-> 0, isRunning |-> FALSE]

\* The component is mounted and the mount effect has packed the default
\* configuration.
SimInit ==
    /\ simulationState = IdleState
    /\ animationInterval = 0
    /\ timers = NoTimers
    /\ nextTimer = 1
    /\ script \in Scripts
    /\ isConnected \in BOOLEAN
    /\ pendingStop = NoStop
    /\ PackIdle
    /\ GenIdle
    /\ SockIdle

\* handlePlay: does nothing while running; otherwise starts an interval
\* over the script and enters PLACEMENT.
handlePlay ==
    /\ ~simulationState.isRunning
    /\ nextTimer <= MaxTimers
    /\ simulationState' =
            [mode |-> "Placement", step |-> 0,
             totalSteps |-> TotalSteps(script, 1), isRunning |-> TRUE]
    /\ timers' = (nextTimer :> [script |-> script, currentScriptIndex |-> 0,
                                currentPathIndex |-> 0, currentStep |-> 0])
                    @@ timers
    /\ animationInterval' = nextTimer
    /\ nextTimer' = nextTimer + 1
    /\ UNCHANGED <<script, isConnected, pendingStop, packVars, genVars, sockVars>>

\* setSimulationState(prev => ({ ...prev, isRunning: false }))
PausedState(prev) == [prev EXCEPT !.isRunning = FALSE]

\* handlePause, offered by the button while isRunning.
handlePause ==
    /\ simulationState.isRunning
    /\ timers' = IF animationInterval # 0
                  THEN ClearInterval(timers, animationInterval) ELSE timers
    /\ animationInterval' = 0
    /\ simulationState' = PausedState(simulationState)
    /\ UNCHANGED <<nextTimer, script, isConnected, pendingStop, packVars, genVars, sockVars>>

\* handleReset: clears the interval in state and packs again.
handleReset ==
    /\ timers' = IF animationInterval # 0
                  THEN ClearInterval(timers, animationInterval) ELSE timers
    /\ animationInterval' = 0
    /\ script' \in Scripts
    /\ simulationState' = IdleState
    /\ UNCHANGED <<nextTimer, isConnected, pendingStop, packVars, genVars, sockVars>>

\* handleSaveConfiguration, whose button is disabled while isRunning: packs
\* again and leaves the interval alone.
handleSaveConfiguration ==
    /\ ~simulationState.isRunning
    /\ script' \in Scripts
    /\ simulationState' = IdleState
    /\ UNCHANGED <<animationInterval, timers, nextTimer, isConnected,
                   pendingStop, packVars, genVars, sockVars>>

\* handleEmergencyStop up to its await: the button is enabled while
\* connected, and the callback holds the animationInterval of its render.
EmergencyStopRequest ==
    /\ isConnected
    /\ ~pendingStop.pending
    /\ pendingStop' = [pending |-> TRUE, interval |-> animationInterval]
    /\ UNCHANGED <<simulationState, animationInterval, timers, nextTimer,
                   script, isConnected, packVars, genVars, sockVars>>

\* MoonrakerAPI.emergencyStop() resolved: stop the animation, go IDLE.
EmergencyStopDone ==
    /\ pendingStop.pending
    /\ timers' = IF pendingStop.interval # 0
                  THEN ClearInterval(timers, pendingStop.interval) ELSE timers
    /\ animationInterval' = IF pendingStop.interval # 0 THEN 0 ELSE animationInterval
    /\ simulationState' = [simulationState EXCEPT !.isRunning = FALSE, !.mode = "Idle"]
    /\ pendingStop' = NoStop
    /\ UNCHANGED <<nextTimer, script, isConnected, packVars, genVars, sockVars>>

\* MoonrakerAPI.emergencyStop() rejected: the catch only logs.
EmergencyStopFailed ==
    /\ pendingStop.pending
    /\ pendingStop' = NoStop
    /\ UNCHANGED <<simulationState, animationInterval, timers, nextTimer,
                   script, isConnected, packVars, genVars, sockVars>>

\* The connection comes up or goes down.
ConnectionChange ==
    /\ isConnected' = ~isConnected
    /\ UNCHANGED <<simulationState, animationInterval, timers, nextTimer,
                   script, pendingStop, packVars, genVars, sockVars>>

\* A tick of interval t after its script is exhausted.
TickFinish(t) ==
    /\ timers[t].currentScriptIndex >= Len(timers[t].script)
    /\ timers' = ClearInterval(timers, t)
    /\ simulationState' = [simulationState EXCEPT !.isRunning = FALSE, !.mode = "Idle"]
    /\ animationInterval' = 0
    /\ UNCHANGED <<nextTimer, script, isConnected, pendingStop, packVars, genVars, sockVars>>

\* A tick of interval t inside its script: a new item sets the mode, the
\* step is shown, and the indices move on.
TickAdvance(t) ==
    LET c == timers[t]
        currentScript == c.script[c.currentScriptIndex + 1]
        started == IF c.currentPathIndex = 0
                   THEN [simulationState EXCEPT
                            !.mode = IF currentScript.type = "pack"
                                     THEN "Placement" ELSE "Retrieval"]
                   ELSE simulationState
        itemDone == c.currentPathIndex + 1 >= currentScript.len
    IN  /\ c.currentScriptIndex < Len(c.script)
        /\ simulationState' = [started EXCEPT !.step = c.currentStep]
        /\ timers' = [timers EXCEPT ![t] =
                [c EXCEPT !.currentPathIndex = IF itemDone THEN 0 ELSE @ + 1,
                          !.currentStep = @ + 1,
                          !.currentScriptIndex = IF itemDone THEN @ + 1 ELSE @]]
        /\ UNCHANGED <<animationInterval, nextTimer, script, isConnected,
                       pendingStop, packVars, genVars, sockVars>>

Tick == \E t \in DOMAIN timers : TickFinish(t) \/ TickAdvance(t)

SimNext ==
    \/ handlePlay
    \/ handlePause
    \/ handleReset
    \/ handleSaveConfiguration
    \/ EmergencyStopRequest
    \/ EmergencyStopDone
    \/ EmergencyStopFailed
    \/ ConnectionChange
    \/ Tick

SimSpec == SimInit /\ [][SimNext]_vars

(***************************************************************************)
(* MoonrakerWebSocket: connect, the socket events, the reconnection timer, *)
(* request with its response and its timeout, disconnect and setServer.    *)
(***************************************************************************)
MaxPromises == 2
MaxReconnectTimers == 2

Live == {"connecting", "open"}
Slots == 1..MaxSockets

\* A WebSocket nobody refers to any more once it is closed gives its slot
\* back: this.ws is about to be overwritten or set to null.
Released(socks, cur) ==
    IF cur # 0 /\ socks[cur] = "closed" THEN [socks EXCEPT ![cur] = "unused"] ELSE socks

FreeSlots(socks) == {k \in Slots : socks[k] = "unused"}
FirstFree(socks) == CHOOSE k \in FreeSlots(socks) : \A m \in FreeSlots(socks) : k <= m

\* this.ws = new WebSocket(url): the socket starts connecting and this.ws
\* refers to it, whatever it referred to before.
NewSocket(socks, cur) ==
    LET released == Released(socks, cur)
        k == FirstFree(released)
    IN  [sockets |-> [released EXCEPT ![k] = "connecting"], ws |-> k]

\* ws.close(): a socket that connects or is open starts closing.
CloseCall(socks, cur) ==
    IF cur = 0 THEN socks
    ELSE IF socks[cur] \in Live THEN [socks EXCEPT ![cur] = "closing"]
    ELSE Released(socks, cur)

\* Mutant of CanReconnect: the number of attempts is not bounded.
CanReconnect_Always(attempts) == TRUE

\* if (this.reconnectAttempts < this.maxReconnectAttempts)
CanReconnect(attempts) == attempts < maxReconnectAttempts

\* isConnected()
SockConnected(socks, cur) == cur # 0 /\ socks[cur] = "open"

SockInit ==
    /\ SockIdle
    /\ PackIdle
    /\ GenIdle
    /\ SimIdle

\* connect() called by the owner of the client, which calls it on a client
\* that holds no socket: one just constructed, or after disconnect().
connect ==
    /\ ws = 0
    /\ FreeSlots(Released(sockets, ws)) # {}
    /\ sockets' = NewSocket(sockets, ws).sockets
    /\ ws' = NewSocket(sockets, ws).ws
    /\ userDisconnected' = FALSE
    /\ UNCHANGED <<reconnectAttempts, reconnectTimers, requestId, pendingRequests,
                   promises, closesSinceOpen, packVars, genVars, simVars>>

\* The timer of attemptReconnect runs: this.connect().
ReconnectTimer ==
    /\ reconnectTimers > 0
    /\ FreeSlots(Released(sockets, ws)) # {}
    /\ reconnectTimers' = reconnectTimers - 1
    /\ sockets' = NewSocket(sockets, ws).sockets
    /\ ws' = NewSocket(sockets, ws).ws
    /\ UNCHANGED <<reconnectAttempts, requestId, pendingRequests, promises,
                   closesSinceOpen, userDisconnected, packVars, genVars, simVars>>

\* The promise request() returns when this.ws is open: the id is taken,
\* registered and sent, and the 10-second timer is armed.
SentRequest(id, via) ==
    [id |-> id, state |-> "pending", settled |-> 0, timer |-> "armed", via |-> via]

\* The promise request() returns when this.ws is null or not open: rejected
\* at once, no id taken, no timer.
RefusedRequest ==
    [id |-> 0, state |-> "rejected", settled |-> 1, timer |-> "none", via |-> 0]

\* onopen of socket k: the attempts are reset and subscribeToUpdates calls
\* request(), which looks at this.ws.
onopen(k) ==
    /\ sockets[k] = "connecting"
    /\ Len(promises) < MaxPromises
    /\ sockets' = [sockets EXCEPT ![k] = "open"]
    /\ reconnectAttempts' = 0
    /\ closesSinceOpen' = 0
    /\ IF SockConnected(sockets', ws)
       THEN /\ promises' = Append(promises, SentRequest(requestId, ws))
            /\ pendingRequests' = pendingRequests \cup {requestId}
            /\ requestId' = requestId + 1
       ELSE /\ promises' = Append(promises, RefusedRequest)
            /\ UNCHANGED <<pendingRequests, requestId>>
    /\ UNCHANGED <<ws, reconnectTimers, userDisconnected, packVars, genVars, simVars>>

\* The promise after handleMessage or the timeout callback found its id in
\* pendingRequests and called resolve or reject.
Settle(promise, outcome) ==
    [promise EXCEPT !.state = IF @ = "pending" THEN outcome ELSE @,
                    !.settled = @ + 1]

\* onmessage of the socket the request went out on, with a message that
\* carries the request's id: handleMessage.
handleMessage(i, isError) ==
    /\ promises[i].via # 0
    /\ sockets[promises[i].via] = "open"
    /\ IF promises[i].id \in pendingRequests
       THEN /\ pendingRequests' = pendingRequests \ {promises[i].id}
            /\ promises' = [promises EXCEPT
                              ![i] = Settle(@, IF isError THEN "rejected" ELSE "resolved")]
       ELSE UNCHANGED <<pendingRequests, promises>>
    /\ UNCHANGED <<sockets, ws, reconnectAttempts, reconnectTimers, requestId,
                   closesSinceOpen, userDisconnected, packVars, genVars, simVars>>

\* The setTimeout callback of request(), 10 seconds after the send.
RequestTimeout(i) ==
    /\ promises[i].timer = "armed"
    /\ IF promises[i].id \in pendingRequests
       THEN /\ pendingRequests' = pendingRequests \ {promises[i].id}
            /\ promises' = [promises EXCEPT
                              ![i] = [Settle(@, "rejected") EXCEPT !.timer = "fired"]]
       ELSE /\ promises' = [promises EXCEPT ![i].timer = "fired"]
            /\ UNCHANGED pendingRequests
    /\ UNCHANGED <<sockets, ws, reconnectAttempts, reconnectTimers, requestId,
                   closesSinceOpen, userDisconnected, packVars, genVars, simVars>>

\* onclose of socket k (the connection failed, the peer went away, or a
\* close() completed): attemptReconnect.  Nothing arrives on k afterwards.
onclose(k) ==
    /\ sockets[k] \in {"connecting", "open", "closing"}
    /\ CanReconnect(reconnectAttempts) => reconnectTimers < MaxReconnectTimers
    /\ sockets' = [sockets EXCEPT ![k] = IF ws = k THEN "closed" ELSE "unused"]
    /\ IF CanReconnect(reconnectAttempts)
       THEN /\ reconnectAttempts' = reconnectAttempts + 1
            /\ reconnectTimers' = reconnectTimers + 1
       ELSE UNCHANGED <<reconnectAttempts, reconnectTimers>>
    /\ closesSinceOpen' = Min(closesSinceOpen + 1, maxReconnectAttempts + 1)
    /\ promises' = [i \in DOMAIN promises |->
                       IF promises[i].via = k THEN [promises[i] EXCEPT !.via = 0]
                       ELSE promises[i]]
    /\ UNCHANGED <<ws, requestId, pendingRequests, userDisconnected,
                   packVars, genVars, simVars>>

\* disconnect() called by the owner of the client.
disconnect ==
    /\ sockets' = CloseCall(sockets, ws)
    /\ ws' = 0
    /\ pendingRequests' = {}
    /\ userDisconnected' = TRUE
    /\ UNCHANGED <<reconnectAttempts, reconnectTimers, requestId, promises,
                   closesSinceOpen, packVars, genVars, simVars>>

\* setServer(host, port): disconnect() and connect() when connected.
setServer ==
    IF SockConnected(sockets, ws)
    THEN /\ FreeSlots(CloseCall(sockets, ws)) # {}
         /\ sockets' = NewSocket(CloseCall(sockets, ws), 0).sockets
         /\ ws' = NewSocket(CloseCall(sockets, ws), 0).ws
         /\ pendingRequests' = {}
         /\ userDisconnected' = FALSE
         /\ UNCHANGED <<reconnectAttempts, reconnectTimers, requestId, promises,
                        closesSinceOpen, packVars, genVars, simVars>>
    ELSE UNCHANGED vars

SockNext ==
    \/ connect
    \/ ReconnectTimer
    \/ \E k \in Slots : onopen(k)
    \/ \E i \in DOMAIN promises, isError \in BOOLEAN : handleMessage(i, isError)
    \/ \E i \in DOMAIN promises : RequestTimeout(i)
    \/ \E k \in Slots : onclose(k)
    \/ disconnect
    \/ setServer

SockSpec == SockInit /\ [][SockNext]_vars

(***************************************************************************)
(* Properties.                                                             *)
(***************************************************************************)
\* packBoxes has returned its PackingResult.
Returned == pc \in {"done", "reported"}

PackedIdx == {k \in DOMAIN boxes : boxes[k].isPacked}
BoxOfId(boxId) == boxes[FindById(boxes, boxId)]
Last(path) == path[Len(path)]
Range(s) == {s[k] : k \in DOMAIN s}

\* Strict overlap of two rectangles [x, y, width, height].
RectsOverlap(a, b) ==
    /\ a.x < b.x + b.width
    /\ b.x < a.x + a.width
    /\ a.y < b.y + b.height
    /\ b.y < a.y + a.height

Rect(box) == [x |-> box.x, y |-> box.y, width |-> box.width, height |-> box.height]
RectAt(pos, box) == [x |-> pos.x, y |-> pos.y, width |-> box.width, height |-> box.height]

C2_PackedHaveRetrievalPath ==
    Returned => \A k \in PackedIdx : boxes[k].id \in DOMAIN retrievalPaths

\* A result with several committed boxes, one of which has to move to reach
\* its exit in the final retrieval search.
C2_Witness ==
    /\ Returned
    /\ Cardinality(PackedIdx) >= 2
    /\ \E k \in PackedIdx :
          /\ boxes[k].id \in DOMAIN retrievalPaths
          /\ Len(retrievalPaths[boxes[k].id]) > 1

\* C3 as stated: at every position of every retrieval path, the moving box
\* does not overlap the clearance-inflated rectangle of any other committed
\* box.
C3_PathCollisionFree ==
    Returned =>
        \A boxId \in DOMAIN retrievalPaths :
            \A p \in DOMAIN retrievalPaths[boxId] :
                \A o \in PackedIdx :
                    boxes[o].id # boxId =>
                        ~RectsOverlap(RectAt(retrievalPaths[boxId][p], BoxOfId(boxId)),
                                      Obstacle(config, boxes[o]))

\* C4: the retrieval order is a permutation of 0..n-1, from the moment it is
\* created and whether or not the boxes end up packed.
C4_OrderIsPermutation ==
    pc # "start" =>
        /\ Len(retrievalOrder) = Len(input)
        /\ Range(retrievalOrder) = 0..(Len(input) - 1)

\* A returned result whose order is not the identity and where a box stayed
\* unpacked.
C4_Witness ==
    /\ Returned
    /\ Len(input) = MaxBoxes
    /\ retrievalOrder[1] # 0
    /\ \E k \in DOMAIN boxes : ~boxes[k].isPacked

\* C5: every retrieval path starts at the committed position of its box and
\* ends at a position satisfying the exit condition of the box's nearest edge.
C5_RetrievalPathEnds ==
    Returned =>
        \A boxId \in DOMAIN retrievalPaths :
            LET box == BoxOfId(boxId)
                path == retrievalPaths[boxId]
                edge == NearestEdge(config, box)
            IN  /\ Len(path) >= 1
                /\ path[1] = Position(box.x, box.y)
                /\ \/ edge = "left" /\ Last(path).x <= 0
                   \/ edge = "right" /\ Last(path).x + box.width >= config.storageWidth
                   \/ edge = "top" /\ Last(path).y <= 0
                   \/ edge = "bottom" /\ Last(path).y + box.height >= config.storageLength

\* A committed box that is not at its exit and travels to it.
C5_Witness ==
    /\ Returned
    /\ \E boxId \in DOMAIN retrievalPaths : Len(retrievalPaths[boxId]) > 2

\* C6 as stated: every packing path starts at the dock position
\* (0, storageLength).
C6_PackingPathStartsAtDock ==
    Returned =>
        \A boxId \in DOMAIN packingPaths :
            /\ Len(packingPaths[boxId]) >= 1
            /\ packingPaths[boxId][1] = Position(0, config.storageLength)

\* C7: every packing path, from the BFS or from the fallback, ends at the
\* committed position of its box.
C7_PackingPathEndsAtBox ==
    \A boxId \in DOMAIN packingPaths :
        /\ Len(packingPaths[boxId]) >= 1
        /\ Last(packingPaths[boxId]) = Position(BoxOfId(boxId).x, BoxOfId(boxId).y)

\* A result with a packing path from the BFS and one from the fallback, both
\* longer than one position.
C7_Witness ==
    /\ Returned
    /\ \E a, b \in DOMAIN packingPaths :
          /\ pathKind[a] = "bfs" /\ Len(packingPaths[a]) > 1
          /\ pathKind[b] = "fallback" /\ Len(packingPaths[b]) > 1

\* C8: the ids with a packing path are exactly the committed boxes, and an
\* unpacked box has no packing path and no retrieval path.
C8_PathEntriesOnlyForPacked ==
    Returned =>
        /\ DOMAIN packingPaths = {boxes[k].id : k \in PackedIdx}
        /\ \A k \in DOMAIN boxes :
              ~boxes[k].isPacked =>
                  /\ boxes[k].id \notin DOMAIN packingPaths
                  /\ boxes[k].id \notin DOMAIN retrievalPaths

\* A result with a committed box and a box left unpacked.
C8_Witness ==
    /\ Returned
    /\ PackedIdx # {}
    /\ \E k \in DOMAIN boxes : ~boxes[k].isPacked

\* The position of packBoxes in its loops, as a tuple that every step must
\* increase lexicographically: phase, then the loop indices of the phase.
Progress ==
    CASE pc = "start" -> <<0, 0, 0, 0, 0>>
      [] pc = "shuffle" -> <<1, Len(input) - si, 0, 0, 0>>
      [] pc = "pack" -> <<2, cursor.i, cursor.o, cursor.y, cursor.x>>
      [] pc = "retrieve" -> <<3, ri, 0, 0, 0>>
      [] pc = "done" -> <<4, 0, 0, 0, 0>>
      [] OTHER -> <<5, 0, 0, 0, 0>>

RECURSIVE LexLess(_, _)
LexLess(a, b) ==
    /\ a # <<>>
    /\ \/ Head(a) < Head(b)
       \/ Head(a) = Head(b) /\ LexLess(Tail(a), Tail(b))

\* Every component of Progress stays in a finite range fixed by the input.
ProgressBounded ==
    \A k \in DOMAIN Progress :
        /\ 0 <= Progress[k]
        /\ Progress[k] <= Len(input) + config.storageWidth + config.storageLength + 5

\* The guards of the actions of Next, whose primed parts can always be met.
SomeGuardHolds ==
    \/ pc = "start"
    \/ pc = "shuffle" /\ (si > 0 \/ si <= 0)
    \/ AtCandidate /\ (CurCollision \/ CurBlocked \in BOOLEAN)
    \/ pc = "pack" /\ cursor.i >= Len(boxes)
    \/ pc = "retrieve" /\ (ri < Len(retrievalOrder) \/ ri >= Len(retrievalOrder))
    \/ pc = "done"

\* C9: packBoxes terminates and returns a result whose boxes have the length
\* and the ids of the input: before it returns a step is always possible,
\* every step (each running its searches to completion) moves strictly
\* forward in a bounded order (steps changes with every step, so no step of
\* Next is exempt), and the returned boxes match the input.
C9_Terminates ==
    /\ [](~Returned => SomeGuardHolds)
    /\ [](ProgressBounded)
    /\ [][LexLess(Progress, Progress')]_vars
    /\ [](Returned =>
            /\ Len(boxes) = Len(input)
            /\ \A k \in DOMAIN boxes : boxes[k].id = input[k].id)

\* A returned result for MaxBoxes boxes in which the fallback loop ran and a
\* retrieval search had to move.
C9_Witness ==
    /\ pc = "done"
    /\ Len(input) = MaxBoxes
    /\ \E boxId \in DOMAIN packingPaths : pathKind[boxId] = "fallback"
    /\ \E boxId \in DOMAIN retrievalPaths : Len(retrievalPaths[boxId]) > 1

\* C10: the density of a returned box list lies in [0, 100] (num / den with
\* 0 <= num <= 100 * den), and is 0 when no box is packed.
C10_DensityInRange ==
    pc = "reported" =>
        /\ density.den > 0
        /\ 0 <= density.num
        /\ density.num <= 100 * density.den
        /\ (PackedIdx = {} => density.num = 0)

\* A density computed for a result with a packed and an unpacked box.
C10_Witness ==
    /\ pc = "reported"
    /\ density.num > 0
    /\ \E k \in DOMAIN boxes : ~boxes[k].isPacked

C12_InputUntouched == [][input' = input]_vars

\* A returned result whose box was committed in the rotated orientation away
\* from the origin, while the caller's box is as it was generated.
C12_Witness ==
    /\ Returned
    /\ \E k \in DOMAIN boxes :
          /\ boxes[k].isPacked /\ boxes[k].isRotated /\ boxes[k].x > 0
          /\ input[k] = Box(k - 1, boxes[k].height, boxes[k].width)

\* C13 as stated: generateRandomBoxes returns numRectangles boxes, ids
\* 0..numRectangles-1 in order, at the origin, unrotated, unpacked, with
\* every side w in minSide <= w < maxSide.
C13_SidesInHalfOpenRange ==
    genPc = "returned" =>
        /\ Len(generated) = genConfig.numRectangles
        /\ \A k \in DOMAIN generated :
              /\ generated[k] = Box(k - 1, generated[k].width, generated[k].height)
              /\ genConfig.minSide <= generated[k].width
              /\ generated[k].width < genConfig.maxSide
              /\ genConfig.minSide <= generated[k].height
              /\ generated[k].height < genConfig.maxSide

\* The range of a side for a configuration: [minSide, maxSide) when it is
\* not empty, minSide alone when maxSide = minSide, and [maxSide, minSide]
\* when maxSide < minSide.
SideAllowed(cfg, w) ==
    IF cfg.minSide < cfg.maxSide THEN cfg.minSide <= w /\ w < cfg.maxSide
    ELSE cfg.maxSide <= w /\ w <= cfg.minSide

\* C13 amended: the count, ids and initial fields are as stated; a side lies
\* in [minSide, maxSide) when minSide < maxSide, equals minSide when
\* maxSide = minSide, and lies in [maxSide, minSide] when maxSide < minSide.
C13_SidesInConfiguredRange ==
    genPc = "returned" =>
        /\ Len(generated) = genConfig.numRectangles
        /\ \A k \in DOMAIN generated :
              /\ generated[k] = Box(k - 1, generated[k].width, generated[k].height)
              /\ SideAllowed(genConfig, generated[k].width)
              /\ SideAllowed(genConfig, generated[k].height)

\* MaxRectangles boxes returned for a configuration with a proper side
\* range, the first box having the smallest width and the largest height.
C13_Witness ==
    /\ genPc = "returned"
    /\ Len(generated) = MaxRectangles
    /\ genConfig.maxSide > genConfig.minSide + 1
    /\ generated[1].width = genConfig.minSide
    /\ generated[1].height = genConfig.maxSide - 1

InScenario(s) == config = s.config /\ input = s.input

\* C14 (scenario A): the single 50x50 box is committed at (0,0) and its
\* retrieval path is the one position (0,0).
C14_ScenarioA ==
    (Returned /\ InScenario(ScenarioA)) =>
        /\ boxes[1].isPacked
        /\ boxes[1].x = 0 /\ boxes[1].y = 0
        /\ 0 \in DOMAIN retrievalPaths
        /\ retrievalPaths[0] = <<Position(0, 0)>>

\* Scenario A has returned.
C14_Witness ==
    /\ Returned
    /\ InScenario(ScenarioA)
    /\ Len(boxes) = 1
    /\ 0 \in DOMAIN retrievalPaths

\* C15 (scenario B): the first box is committed at (0,0); the second is not
\* committed at a position with x < 70 or y < 70, and if it is committed its
\* rectangle stays out of the first box's rectangle widened by 20.
C15_ScenarioB ==
    (Returned /\ InScenario(ScenarioB)) =>
        /\ boxes[1].isPacked /\ boxes[1].x = 0 /\ boxes[1].y = 0
        /\ boxes[2].isPacked =>
              /\ ~(boxes[2].x < 70 \/ boxes[2].y < 70)
              /\ ~RectsOverlap(Obstacle(Config(100, 100, 20), boxes[1]), Rect(boxes[2]))

\* Scenario B has returned after every candidate of the second box, in both
\* orientations, was turned down by the overlap check.
C15_Witness ==
    /\ Returned
    /\ InScenario(ScenarioB)
    /\ boxes[1].isPacked
    /\ ~boxes[2].isPacked
    /\ steps > 72

\* C16 (scenario C): exactly one of the three 50x50 boxes is committed, and
\* the two others have no entry in packingPaths or retrievalPaths.
C16_ScenarioC ==
    \A c \in ScenarioClearances :
        (Returned /\ InScenario(ScenarioC(c))) =>
            /\ Cardinality(PackedIdx) = 1
            /\ \A k \in DOMAIN boxes :
                  ~boxes[k].isPacked =>
                      /\ boxes[k].id \notin DOMAIN packingPaths
                      /\ boxes[k].id \notin DOMAIN retrievalPaths

\* Scenario C has returned without clearance with its first box committed
\* and a packing and a retrieval path recorded for it.
C16_Witness ==
    /\ Returned
    /\ InScenario(ScenarioC(0))
    /\ boxes[1].isPacked
    /\ DOMAIN packingPaths = {0}
    /\ DOMAIN retrievalPaths = {0}

\* C17 (scenario D): a single box committed flush against the left edge has
\* a retrieval path; along it x never increases, every change of x is a
\* decrement of exactly step, and the last position has x <= 0.
C17_ScenarioD ==
    pc = "probed" =>
        /\ 0 \in DOMAIN retrievalPaths
        /\ LET path == retrievalPaths[0]
           IN  /\ Len(path) >= 1
               /\ \A k \in 1..(Len(path) - 1) :
                     \/ path[k + 1].x = path[k].x
                     \/ path[k + 1].x = path[k].x - step
               /\ Last(path).x <= 0

\* The search has run for a box below the top edge whose nearest edge is
\* the left one.
C17_Witness ==
    /\ pc = "probed"
    /\ boxes[1].x = 0
    /\ boxes[1].y > 0
    /\ NearestEdge(config, boxes[1]) = "left"
    /\ 0 \in DOMAIN retrievalPaths

\* C18 as stated: in every state reachable through Play, Pause, Reset, Save
\* Configuration, Emergency Stop and timer ticks, isRunning = false implies
\* mode = IDLE.
C18_NotRunningIsIdle ==
    (simulationState.isRunning = FALSE) => simulationState.mode = "Idle"

\* C19: at every moment of packBoxes, hence right after each commit, every
\* box committed so far has a retrieval path among the boxes committed so
\* far.
C19_AlwaysRetrievable ==
    \A k \in PackedIdx : findRetrievalPath(config, boxes[k], boxes).found

\* In the middle of the scan, with boxes committed of which one has to
\* travel to its exit, the candidate at hand clears the committed boxes and
\* could leave itself, but the oracle turns it down for an earlier box.
C19_Witness ==
    /\ AtCandidate
    /\ Cardinality(PackedIdx) >= 2
    /\ \E k \in PackedIdx : Len(findRetrievalPath(config, boxes[k], boxes).path) > 1
    /\ ~CurCollision
    /\ CurBlocked
    /\ ~BlockedFrom(config, TempBoxes(CurPos, CurOrientation, CurBox.id, boxes),
                    <<CurBox.id>>, 1)

\* The candidates of the k-th input box: orientation o (0 original, 1
\* rotated) and a position on the step grid at which the box, so oriented,
\* lies inside the storage.
GridUpTo(limit) == {step * j : j \in 0..(limit \div step)}
Candidates(k) ==
    UNION {{[o |-> o, x |-> x, y |-> y] :
                x \in GridUpTo(config.storageWidth - Orientations(input[k])[o + 1].width),
                y \in GridUpTo(config.storageLength - Orientations(input[k])[o + 1].height)} :
           o \in 0..1}

\* Scan order: original orientation before rotated, then y, then x.
ScannedBefore(a, b) ==
    \/ a.o < b.o
    \/ a.o = b.o /\ a.y < b.y
    \/ a.o = b.o /\ a.y = b.y /\ a.x < b.x

\* result.boxes as it was while the k-th box was scanned: the boxes before
\* it as they ended up, the k-th and the later ones as they came in.
BoxesBefore(k) == [m \in DOMAIN boxes |-> IF m >= k THEN input[m] ELSE boxes[m]]

\* Candidate c of the k-th box keeps the clearance from every box committed
\* before it and is accepted by the oracle.
PassesBoth(k, c) ==
    LET orientation == Orientations(input[k])[c.o + 1]
        before == BoxesBefore(k)
    IN  /\ \A m \in 1..(k - 1) :
              before[m].isPacked =>
                  ~RectsOverlap(Obstacle(config, before[m]),
                                [x |-> c.x, y |-> c.y,
                                 width |-> orientation.width,
                                 height |-> orientation.height])
        /\ ~wouldBlockRetrieval(config, Position(c.x, c.y), orientation,
                                input[k].id, before, retrievalOrder)

\* The candidate at which the k-th box was committed.
CommittedCandidate(k) ==
    [o |-> IF boxes[k].isRotated THEN 1 ELSE 0, x |-> boxes[k].x, y |-> boxes[k].y]

\* C20: a committed box sits at the first candidate in scan order that
\* passes the overlap check and the oracle, and a box is left unpacked only
\* if none of its candidates passes both.
C20_FirstFit ==
    Returned =>
        \A k \in DOMAIN boxes :
            IF boxes[k].isPacked
            THEN /\ CommittedCandidate(k) \in Candidates(k)
                 /\ PassesBoth(k, CommittedCandidate(k))
                 /\ \A c \in Candidates(k) :
                       ScannedBefore(c, CommittedCandidate(k)) => ~PassesBoth(k, c)
            ELSE \A c \in Candidates(k) : ~PassesBoth(k, c)

\* A result in which a box was committed in its rotated orientation, all
\* its original-orientation candidates having failed, one of them at the
\* oracle, and in which another box was left unpacked.
C20_Witness ==
    /\ Returned
    /\ \E k \in DOMAIN boxes : ~boxes[k].isPacked /\ Candidates(k) # {}
    /\ \E k \in PackedIdx :
          /\ boxes[k].isRotated
          /\ \E c \in Candidates(k) :
                /\ c.o = 0
                /\ ~PlacementCollision(config, BoxesBefore(k),
                                       [m \in 1..(k - 1) |->
                                            Position(boxes[m].x, boxes[m].y)],
                                       c.x, c.y, Orientations(input[k])[1])

\* C21: a step of packBoxes changes a box of result.boxes only by
\* committing it (the box was unpacked, is packed afterwards and gets its
\* packing path in that step), so rejected candidates and oracle calls
\* change nothing and a committed box is never changed again; and a box
\* that is never committed is returned as it was passed in.
C21_MutatedOnceAtCommit ==
    /\ [][(pc # "start" /\ Len(boxes') = Len(boxes)) =>
            \A k \in DOMAIN boxes :
                boxes'[k] # boxes[k] =>
                    /\ ~boxes[k].isPacked
                    /\ boxes'[k].isPacked
                    /\ boxes[k].id \notin DOMAIN packingPaths
                    /\ boxes[k].id \in DOMAIN packingPaths']_vars
    /\ [](Returned => \A k \in DOMAIN boxes : ~boxes[k].isPacked => boxes[k] = input[k])

\* The scan has turned down candidates of the box at hand (it is past the
\* first row of the rotated orientation) while earlier boxes are committed,
\* one of them rotated.
C21_Witness ==
    /\ AtCandidate
    /\ cursor.o = 1
    /\ cursor.y > 0
    /\ \E k \in PackedIdx : boxes[k].isRotated

\* One move of the retrieval search: exactly `step` along exactly one axis.
StepMove(a, b) ==
    \/ a.y = b.y /\ (a.x - b.x = step \/ b.x - a.x = step)
    \/ a.x = b.x /\ (a.y - b.y = step \/ b.y - a.y = step)

\* C22: every retrieval path is a simple 4-connected walk inside the
\* expanded region of its box: consecutive positions are one move apart, no
\* position occurs twice, and -width <= x <= storageWidth and
\* -height <= y <= storageLength at every position.
C22_SimpleWalkInRegion ==
    \A boxId \in DOMAIN retrievalPaths :
        LET path == retrievalPaths[boxId]
            box == BoxOfId(boxId)
        IN  /\ \A p \in 1..(Len(path) - 1) : StepMove(path[p], path[p + 1])
            /\ \A p, q \in DOMAIN path : p # q => path[p] # path[q]
            /\ \A p \in DOMAIN path :
                  /\ -box.width <= path[p].x
                  /\ path[p].x <= config.storageWidth
                  /\ -box.height <= path[p].y
                  /\ path[p].y <= config.storageLength

\* A returned retrieval path that turns a corner and ends with the box
\* partly outside the storage.
C22_Witness ==
    /\ Returned
    /\ \E boxId \in DOMAIN retrievalPaths :
          LET path == retrievalPaths[boxId]
              box == BoxOfId(boxId)
          IN  /\ Len(path) >= 3
              /\ \E p, q \in DOMAIN path : path[p].x # path[q].x
              /\ \E p, q \in DOMAIN path : path[p].y # path[q].y
              /\ \/ Last(path).x < 0
                 \/ Last(path).y < 0
                 \/ Last(path).x + box.width > config.storageWidth
                 \/ Last(path).y + box.height > config.storageLength

\* C23 as stated: the packing path of a box committed while no other box is
\* committed (no obstacle stands between the dock and the target) comes from
\* the BFS, never from the direct fallback.
C23_FirstPathFromBFS ==
    Cardinality(PackedIdx) = 1 =>
        \A k \in PackedIdx :
            boxes[k].id \in DOMAIN pathKind => pathKind[boxes[k].id] = "bfs"

\* The gap between two rectangles along x, and along y (negative when their
\* projections on that axis overlap).
GapX(a, b) == Max(b.x - (a.x + a.width), a.x - (b.x + b.width))
GapY(a, b) == Max(b.y - (a.y + a.height), a.y - (b.y + b.height))

\* C24: any two distinct committed boxes are separated by a gap of at least
\* `clearance` along x or along y, so they never overlap, and every
\* committed box lies fully inside the storage.
C24_GapAndInside ==
    /\ \A a, b \in PackedIdx :
          a # b =>
              /\ \/ GapX(boxes[a], boxes[b]) >= config.clearance
                 \/ GapY(boxes[a], boxes[b]) >= config.clearance
              /\ ~RectsOverlap(Rect(boxes[a]), Rect(boxes[b]))
    /\ \A k \in PackedIdx :
          /\ 0 <= boxes[k].x
          /\ boxes[k].x + boxes[k].width <= config.storageWidth
          /\ 0 <= boxes[k].y
          /\ boxes[k].y + boxes[k].height <= config.storageLength

\* Two boxes committed under a positive clearance side by side: their gap
\* along x is at least the clearance and less than clearance + step, and
\* their projections on y overlap.
C24_Witness ==
    /\ Returned
    /\ config.clearance > 0
    /\ \E a, b \in PackedIdx :
          /\ a # b
          /\ GapX(boxes[a], boxes[b]) >= config.clearance
          /\ GapX(boxes[a], boxes[b]) < config.clearance + step
          /\ GapY(boxes[a], boxes[b]) < 0

\* C25: an invocation on the same boxes with any other retrieval order
\* returns the same boxes, packingPaths and retrievalPaths as the
\* invocation whose order is the identity; hence any two orders do.
C25_OrderDoesNotMatter ==
    (first.ran /\ first.source = "random" /\ Returned) =>
        /\ boxes = first.boxes
        /\ packingPaths = first.packingPaths
        /\ retrievalPaths = first.retrievalPaths

\* The second invocation has returned with several boxes committed, one of
\* them away from both axes, under an order that names another box first
\* than the identity order of the first invocation.
C25_Witness ==
    /\ first.ran
    /\ first.source = "random"
    /\ Returned
    /\ Cardinality(PackedIdx) >= 3
    /\ first.retrievalOrder = [k \in DOMAIN retrievalOrder |-> k - 1]
    /\ retrievalOrder[1] # 0
    /\ \E k \in PackedIdx : boxes[k].x > 0 /\ boxes[k].y > 0

\* The positions one move away from p that the rules of the retrieval
\* search admit for targetBox: inside the expanded region and, while the
\* box is fully inside the storage, clear of every obstacle.
AdmittedMoves(cfg, targetBox, obstacles, p) ==
    {q \in {Position(p.x - step, p.y), Position(p.x + step, p.y),
            Position(p.x, p.y - step), Position(p.x, p.y + step)} :
        /\ RetrievalInBounds(cfg, q, targetBox)
        /\ ~RetrievalCollision(cfg, q, targetBox, obstacles)}

\* Breadth-first levels from the box's position: the least number of moves
\* of a walk to a position that satisfies the exit condition of the edge,
\* -1 when no walk reaches one.
RECURSIVE FewestMoves(_, _, _, _, _, _, _)
FewestMoves(cfg, targetBox, obstacles, nearestEdge, frontier, seen, n) ==
    IF frontier = {} THEN -1
    ELSE IF \E p \in frontier : IsExit(cfg, nearestEdge, p, targetBox) THEN n
    ELSE LET nextFrontier ==
                 UNION {AdmittedMoves(cfg, targetBox, obstacles, p) : p \in frontier}
                     \ seen
         IN  FewestMoves(cfg, targetBox, obstacles, nearestEdge, nextFrontier,
                         seen \cup nextFrontier, n + 1)

ShortestRetrieval(cfg, targetBox, currentPositions) ==
    LET startPos == Position(targetBox.x, targetBox.y)
    IN  FewestMoves(cfg, targetBox, RetrievalObstacles(cfg, targetBox, currentPositions),
                    NearestEdge(cfg, targetBox), {startPos}, {startPos}, 0)

\* C26: every retrieval path has as few moves as any walk from the box's
\* position to the chosen edge under the same region and collision rules.
C26_RetrievalPathShortest ==
    \A boxId \in DOMAIN retrievalPaths :
        Len(retrievalPaths[boxId]) - 1 = ShortestRetrieval(config, BoxOfId(boxId), boxes)

\* A retrieval path that has to go round another committed box: it has
\* more moves than the distance to its edge alone would take.
C26_Witness ==
    /\ Returned
    /\ \E boxId \in DOMAIN retrievalPaths :
          LET box == BoxOfId(boxId)
              path == retrievalPaths[boxId]
          IN  /\ Len(path) >= 3
              /\ (Len(path) - 1) * step >=
                     heuristic(config, Position(box.x, box.y),
                               NearestEdge(config, box), box.width, box.height)
                       + 2 * step

\* C27: reconnectAttempts never exceeds maxReconnectAttempts; it goes back
\* to 0 only in a step in which a connecting socket opens; and once
\* maxReconnectAttempts close events have come without an open event, no
\* step schedules another reconnection.
C27_ReconnectionBounded ==
    /\ [](reconnectAttempts <= maxReconnectAttempts)
    /\ [][(reconnectAttempts # 0 /\ reconnectAttempts' = 0) =>
            \E k \in Slots : sockets[k] = "connecting" /\ sockets'[k] = "open"]_vars
    /\ [][closesSinceOpen >= maxReconnectAttempts =>
            reconnectTimers' <= reconnectTimers]_vars

\* A close event has come after maxReconnectAttempts close events without
\* an open, every scheduled reconnection has run, and before that series a
\* socket had opened and reset the attempts.
C27_Witness ==
    /\ closesSinceOpen > maxReconnectAttempts
    /\ reconnectAttempts = maxReconnectAttempts
    /\ reconnectTimers = 0
    /\ promises # <<>>

\* The sockets the client created that are connecting or open.
LiveSockets == {k \in Slots : sockets[k] \in Live}

\* C28 as stated: while the caller's last call is disconnect(), no step
\* creates a WebSocket; and at most one socket the client created is
\* connecting or open at any time.
C28_StaysDisconnected ==
    /\ [][(userDisconnected /\ userDisconnected') =>
            \A k \in Slots : sockets'[k] = "connecting" => sockets[k] = "connecting"]_vars
    /\ [](Cardinality(LiveSockets) <= 1)

\* C29 as stated: no promise of request() is settled twice, and a promise
\* whose 10-second timeout has run is settled.
C29_SettledExactlyOnce ==
    \A i \in DOMAIN promises :
        /\ promises[i].settled <= 1
        /\ promises[i].timer = "fired" =>
              promises[i].state # "pending" /\ promises[i].settled = 1

\* C30 as stated: at most one interval started by handlePlay is live at any
\* time.
C30_AtMostOneTimer == Cardinality(DOMAIN timers) <= 1

====
